---- MODULE Spec2Model ----
(***************************************************************************)
(* Dynamic Node Size (Obsidian plugin), src/main.js.                        *)
(*                                                                         *)
(* The model covers the plugin class DynamicNodeSizePlugin: the exclusion  *)
(* predicate isExcluded, the depth-bounded traversal                        *)
(* calculateTotalConnectedNodes, the sizing pass updateNodeSizes and the    *)
(* per-view interval timers kept in graphIntervals.                         *)
(*                                                                         *)
(* Strings are tuples of one-character strings, so that startsWith,         *)
(* endsWith, slice, split and the regular-expression test are computed.     *)
(* Numbers: the settings sizeMultiplier, multiplierScale and maxSize are    *)
(* integers counting 1/Denom; a weight counts 1/(Denom*Denom), so that the  *)
(* product totalConnected * multiplier * multiplierScale is exact.          *)
(***************************************************************************)
EXTENDS Integers, Sequences, FiniteSets, TLC

VARIABLES
    links,           \* app.metadataCache.resolvedLinks: path -> linked paths, in key order
    files,           \* the paths app.vault.getFileByPath resolves
    frontmatter,     \* app.metadataCache.getFileCache(file).frontmatter, per path
    settings,        \* this.settings
    weight,          \* view.renderer.nodes[..].weight, per view and node id
    pass,            \* what the last call of updateNodeSizes did (history)
    calc,            \* the results of calculateTotalConnectedNodes on the present link
                     \* graph, per root (history)
    excl,            \* the last direct call of isExcluded: its argument and what it
                     \* returned (history)
    data,            \* the plugin's data.json, what loadData returns and saveData writes
    leaf,            \* per view slot of the host: "none", "null" (a graph leaf whose view
                     \* is null), "open" (a graph leaf with this view), "closed" (the
                     \* leaf is gone), "gone" (closed, and layout-change has run since)
    renderer,        \* view.renderer present, per view
    graphIntervals,  \* this.graphIntervals: view -> interval id
    active,          \* the interval ids created by setInterval and not yet cleared
    timerView,       \* interval id -> the view its callback closes over
    nextId,          \* the next interval id setInterval returns
    loaded,          \* the plugin is loaded (onunload has not run)
    ticked           \* history: <<view, "closed" | "gone" | "unloaded", renderer>> of each callback
                     \* run after the view closed or after onunload

vaultVars == <<links, files, frontmatter, settings>>
sizeVars  == <<weight, pass>>
timerVars == <<leaf, renderer, graphIntervals, active, timerView, nextId, loaded, ticked>>
vars == <<links, files, frontmatter, settings, weight, pass, calc, excl, data,
          leaf, renderer, graphIntervals, active, timerView, nextId, loaded, ticked>>

----------------------------------------------------------------------------
(* Bounds of the model.                                                     *)

\* links the host adds in SpecFair
MaxFairLinks == 1

\* the most links of the link graphs of SpecDepth
MaxDepthLinks == 5

\* settings numbers count 1/Denom
Denom == 2
\* links added to resolvedLinks in the traversal specification
MaxLinks == 5
\* links added to resolvedLinks in the sizing specification
MaxSizeLinks == 2
\* largest maxDepth drawn
MaxDepthBound == 3
\* graph views the host ever creates
MaxViews == 2
\* interval ids setInterval hands out
MaxTimers == 3
\* length a cached frontmatter tag list may reach; a pass that would push past it
\* is not taken
MaxTagLen == 6

----------------------------------------------------------------------------
(* Strings.                                                                 *)

startsWith(s, p) == Len(p) <= Len(s) /\ SubSeq(s, 1, Len(p)) = p

endsWith(s, p) == Len(p) <= Len(s) /\ SubSeq(s, Len(s) - Len(p) + 1, Len(s)) = p

\* s.slice(1, -1)
sliceInner(s) == SubSeq(s, 2, Len(s) - 1)

\* s.replace(/^#/, '')
stripHash(s) == IF startsWith(s, <<"#">>) THEN SubSeq(s, 2, Len(s)) ELSE s

includes(seq, x) == \E i \in 1..Len(seq) : seq[i] = x

isSep(c) == c = "," \/ c = " "

\* s.split(/[, ]+/): the pieces between maximal runs of separators; a leading or
\* trailing run leaves an empty piece
RECURSIVE splitFrom(_, _, _)
splitFrom(s, i, cur) ==
    IF i > Len(s) THEN <<cur>>
    ELSE IF isSep(s[i])
         THEN IF i > 1 /\ isSep(s[i - 1])
              THEN splitFrom(s, i + 1, cur)
              ELSE <<cur>> \o splitFrom(s, i + 1, <<>>)
         ELSE splitFrom(s, i + 1, Append(cur, s[i]))

split(s) == splitFrom(s, 1, <<>>)

----------------------------------------------------------------------------
(* new RegExp(src) and regex.test(str), for patterns made of literal        *)
(* characters, '.', '*', '^', '$' and '['.                                  *)

isAssertion(c) == c = "^" \/ c = "$"

\* new RegExp(src) throws SyntaxError: '*' with nothing to repeat, or an
\* unterminated character class
regexCompiles(src) ==
    /\ \A i \in 1..Len(src) :
          src[i] = "*" => (i > 1 /\ src[i - 1] # "*" /\ ~isAssertion(src[i - 1]))
    /\ \A i \in 1..Len(src) :
          src[i] = "[" => \E k \in (i + 1)..Len(src) : src[k] = "]"

atomMatches(a, c) == a = "." \/ a = c

RECURSIVE matchHere(_, _, _, _)
matchHere(p, i, s, j) ==
    IF i > Len(p) THEN TRUE
    ELSE IF p[i] = "^" THEN j = 1 /\ matchHere(p, i + 1, s, j)
    ELSE IF p[i] = "$" THEN j = Len(s) + 1 /\ matchHere(p, i + 1, s, j)
    ELSE IF i < Len(p) /\ p[i + 1] = "*"
         THEN \E k \in 0..(Len(s) + 1 - j) :
                  /\ \A m \in j..(j + k - 1) : atomMatches(p[i], s[m])
                  /\ matchHere(p, i + 2, s, j + k)
         ELSE j <= Len(s) /\ atomMatches(p[i], s[j]) /\ matchHere(p, i + 1, s, j + 1)

regexTest(src, s) == \E j \in 1..(Len(s) + 1) : matchHere(src, 1, s, j)

----------------------------------------------------------------------------
(* The vault: node ids are file paths.                                      *)

NodeA == <<"A", "/", "D", ".", "m", "d">>
NodeB == <<"A", "X", "/", "M", ".", "m", "d">>
NodeC == <<"N", ".", "m", "d">>
NodeD == <<"A", "/", "M", "D", ".", "m", "d">>

NodeIds == {NodeA, NodeB, NodeC, NodeD}

\* renderer.nodes, in the order forEach visits them
rendererNodes == <<NodeA, NodeB, NodeC, NodeD>>

RECURSIVE lastIndexOf(_, _, _)
lastIndexOf(s, c, i) == IF i = 0 THEN 0 ELSE IF s[i] = c THEN i ELSE lastIndexOf(s, c, i - 1)

\* TFile.basename: the name without directory and without extension
basenameOf(path) ==
    LET name == SubSeq(path, lastIndexOf(path, "/", Len(path)) + 1, Len(path))
        dot  == lastIndexOf(name, ".", Len(name))
    IN  IF dot > 1 THEN SubSeq(name, 1, dot - 1) ELSE name

NoFile == [path |-> <<>>, basename |-> <<>>]

\* this.app.vault.getFileByPath(nodeId)
getFileByPath(nodeId) ==
    IF nodeId \in files THEN [path |-> nodeId, basename |-> basenameOf(nodeId)] ELSE NoFile

\* frontmatter values: tags is absent, an array of strings or one string;
\* node_size is <<>> (undefined) or <<n>>; extra holds the string values of the
\* keys other than tags, tag and node_size, in key order
NoTags == [kind |-> "none", val |-> <<>>]
NoFrontmatter == [tags |-> NoTags, node_size |-> <<>>, extra |-> <<>>]

\* a condition that holds for every value that is present, 0 included
truthyIfPresent(v) == Len(v) = 1

\* a JavaScript value used as a condition
truthy(v) == Len(v) = 1 /\ v[1] # 0

\* x || dflt, for a number x
orDefault(x, dflt) == IF x # 0 THEN x ELSE dflt

----------------------------------------------------------------------------
(* isExcluded(file).                                                        *)

\* folderPrefix without the appended '/'
folderPrefixBare(folder) == folder

\* line 57: the prefix a configured folder stands for
folderPrefix(folder) == IF endsWith(folder, <<"/">>) THEN folder ELSE folder \o <<"/">>

folderMatches(file) ==
    \E i \in 1..Len(settings.excludeFolders) :
        startsWith(file.path, folderPrefix(settings.excludeFolders[i]))

\* the loop over excludeTitles from index i: "true", "false", or "throws" when
\* new RegExp raises before any pattern matched
RECURSIVE titleFrom(_, _)
titleFrom(file, i) ==
    IF i > Len(settings.excludeTitles) THEN "false"
    ELSE LET title == settings.excludeTitles[i]
         IN  IF startsWith(title, <<"/">>) /\ endsWith(title, <<"/">>)
             THEN IF ~regexCompiles(sliceInner(title)) THEN "throws"
                  ELSE IF regexTest(sliceInner(title), file.basename) THEN "true"
                  ELSE titleFrom(file, i + 1)
             ELSE IF file.basename = title THEN "true"
                  ELSE titleFrom(file, i + 1)

declaredTags(fm) ==
    IF fm.tags.kind = "array" THEN fm.tags.val
    ELSE IF fm.tags.kind = "string" /\ fm.tags.val # <<>>
         THEN [i \in 1..Len(split(fm.tags.val)) |-> stripHash(split(fm.tags.val)[i])]
         ELSE <<>>

RECURSIVE implicitTags(_, _)
implicitTags(extra, i) ==
    IF i > Len(extra) THEN <<>>
    ELSE IF startsWith(extra[i], <<"#">>)
         THEN <<stripHash(extra[i])>> \o implicitTags(extra, i + 1)
         ELSE implicitTags(extra, i + 1)

\* the local tags after lines 78-93
collectedTags(fm) == declaredTags(fm) \o implicitTags(fm.extra, 1)

tagMatches(file) ==
    \E i \in 1..Len(settings.excludeTags) :
        includes(collectedTags(frontmatter[file.path]), settings.excludeTags[i])

\* "true", "false" or "throws"
isExcluded(file) ==
    IF file = NoFile THEN "false"
    ELSE IF folderMatches(file) THEN "true"
    ELSE IF titleFrom(file, 1) # "false" THEN titleFrom(file, 1)
    ELSE IF tagMatches(file) THEN "true"
    ELSE "false"

\* a call reaches lines 76-93, where tags aliases the cached array and push
\* appends to it
reachesTags(file) ==
    /\ file # NoFile
    /\ ~folderMatches(file)
    /\ titleFrom(file, 1) = "false"
    /\ Len(settings.excludeTags) > 0

RECURSIVE repeatSeq(_, _)
repeatSeq(s, n) == IF n = 0 THEN <<>> ELSE s \o repeatSeq(s, n - 1)

\* the cached frontmatter of a path after n calls of isExcluded on its file
frontmatterAfter(path, n) ==
    LET fm == frontmatter[path]
    IN  IF fm.tags.kind = "array" /\ reachesTags(getFileByPath(path))
        THEN [fm EXCEPT !.tags.val = @ \o repeatSeq(implicitTags(fm.extra, 1), n)]
        ELSE fm

----------------------------------------------------------------------------
(* calculateTotalConnectedNodes(nodeId, visited, currentDepth).             *)
(* lk is resolvedLinks; the result carries the shared visited set and       *)
(* whether isExcluded raised.                                               *)

DefaultMaxDepth == 3

RECURSIVE calcVisit(_, _, _, _)
RECURSIVE calcLinks(_, _, _, _, _)

\* calcVisit without the visited test of lines 103-105
calcVisitRevisiting(lk, nodeId, visited, currentDepth) ==
    LET seen == visited \cup {nodeId}
        file == getFileByPath(nodeId)
        maxDepth == orDefault(settings.maxDepth, DefaultMaxDepth)
    IN  IF file = NoFile
        THEN [total |-> 0, visited |-> seen, threw |-> FALSE]
        ELSE IF isExcluded(file) = "throws"
        THEN [total |-> 0, visited |-> seen, threw |-> TRUE]
        ELSE IF isExcluded(file) = "true"
        THEN [total |-> 0, visited |-> seen, threw |-> FALSE]
        ELSE IF currentDepth >= maxDepth
        THEN [total |-> 1, visited |-> seen, threw |-> FALSE]
        ELSE calcLinks(lk, lk[file.path], 1,
                       [total |-> 1, visited |-> seen, threw |-> FALSE],
                       currentDepth)

\* calcVisit without the visited.add of line 106
calcVisitForgetting(lk, nodeId, visited, currentDepth) ==
    IF nodeId \in visited
    THEN [total |-> 0, visited |-> visited, threw |-> FALSE]
    ELSE LET file == getFileByPath(nodeId)
             maxDepth == orDefault(settings.maxDepth, DefaultMaxDepth)
         IN  IF file = NoFile
             THEN [total |-> 0, visited |-> visited, threw |-> FALSE]
             ELSE IF isExcluded(file) = "throws"
             THEN [total |-> 0, visited |-> visited, threw |-> TRUE]
             ELSE IF isExcluded(file) = "true"
             THEN [total |-> 0, visited |-> visited, threw |-> FALSE]
             ELSE IF currentDepth >= maxDepth
             THEN [total |-> 1, visited |-> visited, threw |-> FALSE]
             ELSE calcLinks(lk, lk[file.path], 1,
                            [total |-> 1, visited |-> visited, threw |-> FALSE],
                            currentDepth)

\* calcVisit following the links of an excluded file, which itself counts 0
calcVisitThroughExcluded(lk, nodeId, visited, currentDepth) ==
    IF nodeId \in visited
    THEN [total |-> 0, visited |-> visited, threw |-> FALSE]
    ELSE LET seen == visited \cup {nodeId}
             file == getFileByPath(nodeId)
             maxDepth == orDefault(settings.maxDepth, DefaultMaxDepth)
         IN  IF file = NoFile
             THEN [total |-> 0, visited |-> seen, threw |-> FALSE]
             ELSE IF isExcluded(file) = "throws"
             THEN [total |-> 0, visited |-> seen, threw |-> TRUE]
             ELSE IF currentDepth >= maxDepth
             THEN [total |-> IF isExcluded(file) = "true" THEN 0 ELSE 1,
                   visited |-> seen, threw |-> FALSE]
             ELSE calcLinks(lk, lk[file.path], 1,
                            [total |-> IF isExcluded(file) = "true" THEN 0 ELSE 1,
                             visited |-> seen, threw |-> FALSE],
                            currentDepth)

\* calcVisit with the depth test of line 115 off by one: a node at depth maxDepth
\* is still expanded
calcVisitPastCap(lk, nodeId, visited, currentDepth) ==
    IF nodeId \in visited
    THEN [total |-> 0, visited |-> visited, threw |-> FALSE]
    ELSE LET seen == visited \cup {nodeId}
             file == getFileByPath(nodeId)
             maxDepth == orDefault(settings.maxDepth, DefaultMaxDepth)
         IN  IF file = NoFile
             THEN [total |-> 0, visited |-> seen, threw |-> FALSE]
             ELSE IF isExcluded(file) = "throws"
             THEN [total |-> 0, visited |-> seen, threw |-> TRUE]
             ELSE IF isExcluded(file) = "true"
             THEN [total |-> 0, visited |-> seen, threw |-> FALSE]
             ELSE IF currentDepth > maxDepth
             THEN [total |-> 1, visited |-> seen, threw |-> FALSE]
             ELSE calcLinks(lk, lk[file.path], 1,
                            [total |-> 1, visited |-> seen, threw |-> FALSE],
                            currentDepth)

calcVisit(lk, nodeId, visited, currentDepth) ==
    IF nodeId \in visited
    THEN [total |-> 0, visited |-> visited, threw |-> FALSE]
    ELSE LET seen == visited \cup {nodeId}
             file == getFileByPath(nodeId)
             maxDepth == orDefault(settings.maxDepth, DefaultMaxDepth)
         IN  IF file = NoFile
             THEN [total |-> 0, visited |-> seen, threw |-> FALSE]
             ELSE IF isExcluded(file) = "throws"
             THEN [total |-> 0, visited |-> seen, threw |-> TRUE]
             ELSE IF isExcluded(file) = "true"
             THEN [total |-> 0, visited |-> seen, threw |-> FALSE]
             ELSE IF currentDepth >= maxDepth
             THEN [total |-> 1, visited |-> seen, threw |-> FALSE]
             ELSE calcLinks(lk, lk[file.path], 1,
                            [total |-> 1, visited |-> seen, threw |-> FALSE],
                            currentDepth)

\* the for...in loop over links, from key i, with totalConnected in acc (a is acc
\* and r the result of the recursive call, each evaluated once)
calcLinks(lk, targets, i, acc, currentDepth) ==
    IF i > Len(targets) \/ acc.threw THEN acc
    ELSE CHOOSE out \in
             {calcLinks(lk, targets, i + 1,
                        [total |-> a.total + r.total, visited |-> r.visited,
                         threw |-> r.threw],
                        currentDepth)
              : a \in {acc},
                r \in {calcVisit(lk, targets[i], acc.visited, currentDepth + 1)}} : TRUE

calculateTotalConnectedNodes(nodeId) == calcVisit(links, nodeId, {}, 0)

----------------------------------------------------------------------------
(* updateNodeSizes(view).                                                   *)

\* the number 1 as a weight
One == Denom * Denom

DefaultMultiplier == Denom
DefaultMaxSize == 50 * Denom

Min(a, b) == IF a <= b THEN a ELSE b
Max(a, b) == IF a >= b THEN a ELSE b

\* dynamicSize without the Math.min against maxSize
dynamicSizeUncapped(totalConnected) ==
    LET multiplier      == orDefault(settings.sizeMultiplier, DefaultMultiplier)
        multiplierScale == orDefault(settings.multiplierScale, DefaultMultiplier)
    IN  Max(totalConnected * multiplier * multiplierScale, One)

\* lines 151-154: the size computed from totalConnected
dynamicSize(totalConnected) ==
    LET multiplier      == orDefault(settings.sizeMultiplier, DefaultMultiplier)
        multiplierScale == orDefault(settings.multiplierScale, DefaultMultiplier)
        maxSize         == orDefault(settings.maxSize, DefaultMaxSize)
        calculatedSize  == Min(totalConnected * multiplier * multiplierScale, maxSize * Denom)
    IN  Max(calculatedSize, One)

NoCalls == [p \in NodeIds |-> 0]

\* sizeNode without the isExcluded test of line 141
sizeNodeIgnoringExclusion(nodeId, w) ==
    LET file   == getFileByPath(nodeId)
        manual == frontmatter[nodeId].node_size
        r      == calculateTotalConnectedNodes(nodeId)
        c      == [p \in NodeIds |-> IF p \in r.visited /\ p \in files THEN 1 ELSE 0]
    IN  IF file = NoFile
        THEN [w |-> w, assigned |-> FALSE, threw |-> FALSE, calls |-> NoCalls]
        ELSE IF truthy(manual)
        THEN [w |-> [w EXCEPT ![nodeId] = manual[1]], assigned |-> TRUE,
              threw |-> FALSE, calls |-> NoCalls]
        ELSE IF r.threw
        THEN [w |-> w, assigned |-> FALSE, threw |-> TRUE, calls |-> c]
        ELSE [w |-> [w EXCEPT ![nodeId] = dynamicSize(r.total)],
              assigned |-> TRUE, threw |-> FALSE, calls |-> c]

\* sizeNode adding the computed size to the weight the node already has
sizeNodeAccumulating(nodeId, w) ==
    LET file   == getFileByPath(nodeId)
        manual == frontmatter[nodeId].node_size
        own    == [p \in NodeIds |-> IF p = nodeId THEN 1 ELSE 0]
        r      == calculateTotalConnectedNodes(nodeId)
        skip(t, c) == [w |-> w, assigned |-> FALSE, threw |-> t, calls |-> c]
    IN  IF file = NoFile THEN skip(FALSE, NoCalls)
        ELSE IF isExcluded(file) = "throws" THEN skip(TRUE, own)
        ELSE IF isExcluded(file) = "true" THEN skip(FALSE, own)
        ELSE IF truthy(manual)
        THEN [w |-> [w EXCEPT ![nodeId] = manual[1]], assigned |-> TRUE,
              threw |-> FALSE, calls |-> own]
        ELSE IF r.threw THEN skip(TRUE, own)
        ELSE [w |-> [w EXCEPT ![nodeId] = @ + dynamicSize(r.total)],
              assigned |-> TRUE, threw |-> FALSE, calls |-> own]

\* sizeNode giving a node whose key does not resolve the minimum size
sizeNodeUnresolved(nodeId, w) ==
    LET file   == getFileByPath(nodeId)
        manual == frontmatter[nodeId].node_size
        own    == [p \in NodeIds |-> IF p = nodeId THEN 1 ELSE 0]
        skip(t, c) == [w |-> w, assigned |-> FALSE, threw |-> t, calls |-> c]
    IN  IF file = NoFile
        THEN [w |-> [w EXCEPT ![nodeId] = Denom * Denom], assigned |-> TRUE,
              threw |-> FALSE, calls |-> NoCalls]
        ELSE IF isExcluded(file) = "throws" THEN skip(TRUE, own)
        ELSE IF isExcluded(file) = "true" THEN skip(FALSE, own)
        ELSE IF truthy(manual)
        THEN [w |-> [w EXCEPT ![nodeId] = manual[1]], assigned |-> TRUE,
              threw |-> FALSE, calls |-> own]
        ELSE CHOOSE out \in
                 {LET c == [p \in NodeIds |->
                              own[p] + (IF p \in r.visited /\ p \in files THEN 1 ELSE 0)]
                  IN  IF r.threw THEN skip(TRUE, c)
                      ELSE [w |-> [w EXCEPT ![nodeId] = dynamicSize(r.total)],
                            assigned |-> TRUE, threw |-> FALSE, calls |-> c]
                  : r \in {calculateTotalConnectedNodes(nodeId)}} : TRUE

\* the forEach callback (lines 139-156) on one node, w the view's weights: what it
\* assigns, whether it raised, and how often it called isExcluded on each path
sizeNode(nodeId, w) ==
    LET file   == getFileByPath(nodeId)
        manual == frontmatter[nodeId].node_size
        own    == [p \in NodeIds |-> IF p = nodeId THEN 1 ELSE 0]
        skip(t, c) == [w |-> w, assigned |-> FALSE, threw |-> t, calls |-> c]
    IN  IF file = NoFile THEN skip(FALSE, NoCalls)
        ELSE IF isExcluded(file) = "throws" THEN skip(TRUE, own)
        ELSE IF isExcluded(file) = "true" THEN skip(FALSE, own)
        ELSE IF truthy(manual)
        THEN [w |-> [w EXCEPT ![nodeId] = manual[1]], assigned |-> TRUE,
              threw |-> FALSE, calls |-> own]
        ELSE CHOOSE out \in
                 {LET c == [p \in NodeIds |->
                              own[p] + (IF p \in r.visited /\ p \in files THEN 1 ELSE 0)]
                  IN  IF r.threw THEN skip(TRUE, c)
                      ELSE [w |-> [w EXCEPT ![nodeId] = dynamicSize(r.total)],
                            assigned |-> TRUE, threw |-> FALSE, calls |-> c]
                  : r \in {calculateTotalConnectedNodes(nodeId)}} : TRUE

\* forEachNode stopping after the first node
forEachNodeFirstOnly(i, acc) ==
    IF i > 1 \/ acc.threw THEN acc
    ELSE LET r == sizeNode(rendererNodes[i], acc.w)
         IN  [w |-> r.w, attempted |-> {rendererNodes[i]},
              assigned |-> IF r.assigned THEN {rendererNodes[i]} ELSE {},
              threw |-> r.threw, calls |-> r.calls]

\* renderer.nodes.forEach from index i; an exception leaves the loop (a is acc and
\* r the callback's result, each evaluated once)
RECURSIVE forEachNode(_, _)
forEachNode(i, acc) ==
    IF i > Len(rendererNodes) \/ acc.threw THEN acc
    ELSE LET nodeId == rendererNodes[i]
         IN  CHOOSE out \in
                 {forEachNode(i + 1,
                      [w |-> r.w,
                       attempted |-> a.attempted \cup {nodeId},
                       assigned |-> IF r.assigned THEN a.assigned \cup {nodeId}
                                    ELSE a.assigned,
                       threw |-> r.threw,
                       calls |-> [p \in NodeIds |-> a.calls[p] + r.calls[p]]])
                  : a \in {acc}, r \in {sizeNode(nodeId, acc.w)}} : TRUE

\* updateNodeSizes(view): the result of the whole pass
updateNodeSizes(view) ==
    LET start == [w |-> weight[view], attempted |-> {}, assigned |-> {},
                  threw |-> FALSE, calls |-> NoCalls]
    IN  IF ~renderer[view] THEN start ELSE forEachNode(1, start)

NoPass == [view |-> 0, attempted |-> {}, assigned |-> {}, threw |-> FALSE]

----------------------------------------------------------------------------
(* The layout-change handler, the interval callback and onunload.           *)

Views == 1..MaxViews

\* getLeavesOfType("graph") as views: the leaves whose view is not null
leafViews == {v \in Views : leaf[v] = "open"}

\* hasInterval without the lookup: every leaf gets a new interval
hasIntervalNever(gi, view) == FALSE

\* line 23: this.graphIntervals.has(view)
hasInterval(gi, view) == view \in DOMAIN gi

\* lines 19-30, from leaf i: st carries graphIntervals, the live interval ids, the
\* views the callbacks close over and the next interval id
RECURSIVE attachFrom(_, _)
attachFrom(i, st) ==
    IF i > MaxViews THEN st
    ELSE IF leaf[i] # "open" \/ hasInterval(st.gi, i) THEN attachFrom(i + 1, st)
    ELSE attachFrom(i + 1,
             [gi     |-> [v \in DOMAIN st.gi \cup {i} |->
                             IF v = i THEN st.next ELSE st.gi[v]],
              active |-> st.active \cup {st.next},
              tv     |-> [t \in DOMAIN st.tv \cup {st.next} |->
                             IF t = st.next THEN i ELSE st.tv[t]],
              next   |-> st.next + 1])

\* closedEntries finding no entry to clean up
closedEntriesNone(gi) == {}

\* line 33: the entries whose view is no longer among the graph leaves
closedEntries(gi) == {v \in DOMAIN gi : v \notin leafViews}

\* detachClosed without clearInterval: the entry is deleted, the interval lives on
detachClosedKeepInterval(st) ==
    [st EXCEPT !.gi = [v \in DOMAIN st.gi \ closedEntries(st.gi) |-> st.gi[v]]]

\* lines 31-37
detachClosed(st) ==
    [st EXCEPT !.gi = [v \in DOMAIN st.gi \ closedEntries(st.gi) |-> st.gi[v]],
               !.active = st.active \ {st.gi[v] : v \in closedEntries(st.gi)}]

layoutChange ==
    detachClosed(attachFrom(1, [gi |-> graphIntervals, active |-> active,
                                tv |-> timerView, next |-> nextId]))

\* onunload without clearInterval: the map is emptied, the intervals live on
onunloadKeepIntervals == active

\* lines 44-47
onunloadActive == active \ {graphIntervals[v] : v \in DOMAIN graphIntervals}

----------------------------------------------------------------------------
(* Actions.                                                                 *)

EmptyMap == [v \in {} |-> 0]

NoCalc == [done |-> FALSE, of |-> <<>>]

NoExcl == [done |-> FALSE, file |-> NoFile, result |-> "false"]

linkCount == Len(links[NodeA]) + Len(links[NodeB]) + Len(links[NodeC]) + Len(links[NodeD])

\* the host records a resolved link from file a to path b: a new key of
\* resolvedLinks[a], after the keys already there; calc and pass describe the
\* last call since resolvedLinks changed
AddLink(a, b, cap) ==
    /\ linkCount < cap
    /\ a \in files
    /\ ~includes(links[a], b)
    /\ links' = [links EXCEPT ![a] = Append(@, b)]
    /\ calc' = NoCalc
    /\ UNCHANGED <<excl, data>>
    /\ pass' = NoPass
    /\ UNCHANGED <<files, frontmatter, settings, weight>>
    /\ UNCHANGED timerVars

\* calculateTotalConnectedNodes(root) is called with the default arguments, for
\* each root in turn (line 152)
Calculate ==
    /\ ~calc.done
    /\ calc' = [done |-> TRUE,
                of |-> [root \in NodeIds |-> calculateTotalConnectedNodes(root)]]
    /\ UNCHANGED <<excl, data>>
    /\ UNCHANGED <<links, files, frontmatter, settings, weight, pass>>
    /\ UNCHANGED timerVars

\* the state updateNodeSizes(view) leaves: weights, the cached tag arrays
\* isExcluded pushed onto, and the record of the pass
RunPass(view) ==
    \E r \in {updateNodeSizes(view)} :
        /\ weight' = [weight EXCEPT ![view] = r.w]
        /\ frontmatter' = [p \in NodeIds |-> frontmatterAfter(p, r.calls[p])]
        /\ \A p \in NodeIds : Len(frontmatter'[p].tags.val) <= MaxTagLen
        /\ pass' = [view |-> view, attempted |-> r.attempted, assigned |-> r.assigned,
                    threw |-> r.threw]

\* lines 24-28: the interval callback of timer t fires
TimerTick(t) ==
    /\ t \in active
    /\ IF renderer[timerView[t]]
       THEN RunPass(timerView[t])
       ELSE UNCHANGED <<weight, frontmatter, pass>>
    /\ ticked' = ticked
                  \cup (IF leaf[timerView[t]] \in {"closed", "gone"}
                        THEN {<<timerView[t], leaf[timerView[t]], renderer[timerView[t]]>>}
                        ELSE {})
                  \cup (IF loaded THEN {}
                        ELSE {<<timerView[t], "unloaded", renderer[timerView[t]]>>})
    /\ UNCHANGED <<links, files, settings, calc, excl, data>>
    /\ UNCHANGED <<leaf, renderer, graphIntervals, active, timerView, nextId, loaded>>

\* lines 16-38: the workspace raises layout-change
LayoutChange ==
    /\ loaded
    /\ layoutChange.next <= MaxTimers + 1
    /\ graphIntervals' = layoutChange.gi
    /\ active' = layoutChange.active
    /\ timerView' = layoutChange.tv
    /\ nextId' = layoutChange.next
    /\ leaf' = [v \in Views |-> IF leaf[v] = "closed" THEN "gone" ELSE leaf[v]]
    /\ UNCHANGED <<renderer, loaded, ticked, calc, excl, data>>
    /\ UNCHANGED vaultVars
    /\ UNCHANGED sizeVars

\* lines 42-48
Unload ==
    /\ loaded
    /\ active' = onunloadActive
    /\ graphIntervals' = EmptyMap
    /\ loaded' = FALSE
    /\ UNCHANGED <<leaf, renderer, timerView, nextId, ticked, calc, excl, data>>
    /\ UNCHANGED vaultVars
    /\ UNCHANGED sizeVars

\* the host: a graph leaf appears, its view not yet set
OpenLeaf(v) ==
    /\ leaf[v] = "none"
    /\ leaf' = [leaf EXCEPT ![v] = "null"]
    /\ UNCHANGED <<renderer, graphIntervals, active, timerView, nextId, loaded, ticked, calc, excl, data>>
    /\ UNCHANGED vaultVars
    /\ UNCHANGED sizeVars

\* the host: the leaf gets its view
AttachView(v) ==
    /\ leaf[v] = "null"
    /\ leaf' = [leaf EXCEPT ![v] = "open"]
    /\ UNCHANGED <<renderer, graphIntervals, active, timerView, nextId, loaded, ticked, calc, excl, data>>
    /\ UNCHANGED vaultVars
    /\ UNCHANGED sizeVars

\* the host: the view gets its renderer
RendererReady(v) ==
    /\ leaf[v] = "open"
    /\ ~renderer[v]
    /\ renderer' = [renderer EXCEPT ![v] = TRUE]
    /\ UNCHANGED <<leaf, graphIntervals, active, timerView, nextId, loaded, ticked, calc, excl, data>>
    /\ UNCHANGED vaultVars
    /\ UNCHANGED sizeVars

\* the host: the leaf closes; the view object may keep its renderer
CloseLeaf(v, keep) ==
    /\ leaf[v] \in {"null", "open"}
    /\ leaf' = [leaf EXCEPT ![v] = "closed"]
    /\ renderer' = [renderer EXCEPT ![v] = @ /\ keep]
    /\ UNCHANGED <<graphIntervals, active, timerView, nextId, loaded, ticked, calc, excl, data>>
    /\ UNCHANGED vaultVars
    /\ UNCHANGED sizeVars

----------------------------------------------------------------------------
(* Inputs: settings as loadSettings leaves them, and vault contents.        *)

\* lines 160-168: the defaults loadSettings merges the stored data over
DefaultSettings ==
    [sizeMultiplier |-> 2 * Denom, multiplierScale |-> Denom, maxSize |-> 50 * Denom,
     maxDepth |-> DefaultMaxDepth,
     excludeFolders |-> <<>>, excludeTitles |-> <<>>, excludeTags |-> <<>>]

\* Object.assign keeping the target's value where both have the key
objectAssignUnder(target, source) ==
    [k \in (DOMAIN target) \cup (DOMAIN source) |->
        IF k \in DOMAIN target THEN target[k] ELSE source[k]]

\* Object.assign(target, source): the keys of both, the source's value where it
\* has the key
objectAssign(target, source) ==
    [k \in (DOMAIN target) \cup (DOMAIN source) |->
        IF k \in DOMAIN source THEN source[k] ELSE target[k]]

\* no data.json: loadData resolves to null
NoData == [exists |-> FALSE, json |-> <<>>]

\* loadData(): Object.assign copies nothing from null
loadData(d) == IF d.exists THEN d.json ELSE <<>>

\* lines 160-168: this.settings after loadSettings, d being the stored data
loadSettings(d) == objectAssign(objectAssign(<<>>, DefaultSettings), loadData(d))

\* line 172: the data.json saveData(this.settings) writes
saveData(s) == [exists |-> TRUE, json |-> s]

\* stored numbers: the defaults; a maximum of 5; multiplier, scale and maximum of
\* 1/Denom; and zeros, which the readers replace by their fallbacks
NumberChoices ==
    { DefaultSettings,
      [DefaultSettings EXCEPT !.maxSize = 5 * Denom, !.maxDepth = 1],
      [DefaultSettings EXCEPT !.sizeMultiplier = 1, !.multiplierScale = 1, !.maxSize = 1,
                              !.maxDepth = 2],
      [DefaultSettings EXCEPT !.sizeMultiplier = 0, !.multiplierScale = 0, !.maxSize = 0,
                              !.maxDepth = 0] }

BadRegex   == <<"/", "[", "/">>
DraftRegex == <<"/", "^", "D", ".", "*", "/">>

\* stored exclusion lists
ExclusionChoices ==
    { [excludeFolders |-> <<>>, excludeTitles |-> <<>>, excludeTags |-> <<>>],
      [excludeFolders |-> << <<"A">> >>, excludeTitles |-> <<>>, excludeTags |-> <<>>],
      [excludeFolders |-> <<>>, excludeTitles |-> << <<"M">>, BadRegex >>,
       excludeTags |-> <<>>],
      [excludeFolders |-> << <<"A">> >>, excludeTitles |-> << BadRegex >>,
       excludeTags |-> <<>>],
      [excludeFolders |-> <<>>, excludeTitles |-> << DraftRegex >>, excludeTags |-> <<>>],
      [excludeFolders |-> <<>>, excludeTitles |-> <<>>, excludeTags |-> << <<"t">> >>] }

withExclusions(st, e) ==
    [st EXCEPT !.excludeFolders = e.excludeFolders, !.excludeTitles = e.excludeTitles,
               !.excludeTags = e.excludeTags]

\* the stored settings: every choice of numbers without exclusions, and every
\* exclusion list with the numbers that leave the maximum at 5 or more
SettingsChoices ==
    NumberChoices \cup
    {withExclusions(n, e) : n \in {m \in NumberChoices : m.maxSize >= 5 * Denom},
                            e \in ExclusionChoices}

\* the frontmatter of the notes: none at all, or A with node_size 10, B with
\* node_size 0, C with a tag array and a '#' value under another key, D with a
\* tag string
RichFrontmatter ==
    [p \in NodeIds |->
        IF p = NodeA THEN [NoFrontmatter EXCEPT !.node_size = <<10 * One>>]
        ELSE IF p = NodeB THEN [NoFrontmatter EXCEPT !.node_size = <<0>>]
        ELSE IF p = NodeC
             THEN [NoFrontmatter EXCEPT !.tags = [kind |-> "array", val |-> << <<"t">> >>],
                                        !.extra = << <<"#", "u">> >>]
        ELSE [NoFrontmatter EXCEPT
                 !.tags = [kind |-> "string", val |-> <<"#", "t", ",", " ", "v">>]]]

BareFrontmatter == [p \in NodeIds |-> NoFrontmatter]

\* the vault: every note exists and has frontmatter, or B is missing and no note
\* has frontmatter
VaultChoices ==
    { [files |-> NodeIds, frontmatter |-> RichFrontmatter],
      [files |-> NodeIds \ {NodeB}, frontmatter |-> BareFrontmatter] }

NoLinks == [p \in NodeIds |-> <<>>]

\* one graph view, open, with its renderer, after the layout-change that gave it
\* its interval
OneViewOpen ==
    /\ leaf = [v \in Views |-> IF v = 1 THEN "open" ELSE "none"]
    /\ renderer = [v \in Views |-> v = 1]
    /\ graphIntervals = [v \in {1} |-> 1]
    /\ active = {1}
    /\ timerView = [t \in {1} |-> 1]
    /\ nextId = 2
    /\ loaded = TRUE
    /\ ticked = {}

----------------------------------------------------------------------------
(* Spec: the sizing pass, driven by the interval of one open view, while    *)
(* the host adds links.                                                     *)

Init ==
    /\ links = NoLinks
    /\ \E v \in VaultChoices : files = v.files /\ frontmatter = v.frontmatter
    /\ settings \in SettingsChoices
    /\ weight = [v \in Views |-> [p \in NodeIds |-> 0]]
    /\ pass = NoPass
    /\ calc = NoCalc
    /\ excl = NoExcl
    /\ data = saveData(settings)
    /\ OneViewOpen

Next ==
    \/ \E a \in NodeIds, b \in NodeIds : AddLink(a, b, MaxSizeLinks)
    \/ \E t \in 1..MaxTimers : TimerTick(t)

Spec == Init /\ [][Next]_vars

----------------------------------------------------------------------------
(* SpecFair: the sizing pass under fair firing of the interval, while the   *)
(* host adds links.                                                         *)

\* stored settings and vaults, none with excludeTags (with it every pass grows
\* the cached tag arrays): the defaults over the full vault; title M
\* excluded, maxSize 5 and maxDepth 1 over the full vault; folder A
\* excluded over the vault without B
FairChoices ==
    {[vault |-> [files |-> NodeIds, frontmatter |-> RichFrontmatter],
      settings |-> DefaultSettings],
     [vault |-> [files |-> NodeIds, frontmatter |-> RichFrontmatter],
      settings |-> [DefaultSettings EXCEPT !.excludeTitles = << <<"M">> >>,
                                           !.maxSize = 5 * Denom, !.maxDepth = 1]],
     [vault |-> [files |-> NodeIds \ {NodeB}, frontmatter |-> BareFrontmatter],
      settings |-> [DefaultSettings EXCEPT !.excludeFolders = << <<"A">> >>]]}

InitFair ==
    /\ links = NoLinks
    /\ \E c \in FairChoices :
          files = c.vault.files /\ frontmatter = c.vault.frontmatter
              /\ settings = c.settings
    /\ weight = [v \in Views |-> [p \in NodeIds |-> 0]]
    /\ pass = NoPass
    /\ calc = NoCalc
    /\ excl = NoExcl
    /\ data = saveData(settings)
    /\ OneViewOpen

NextFair ==
    \/ \E a \in NodeIds, b \in NodeIds : AddLink(a, b, MaxFairLinks)
    \/ \E t \in 1..MaxTimers : TimerTick(t)

\* setInterval(..., 1000): the callback of a live interval keeps firing
SpecFair ==
    InitFair /\ [][NextFair]_vars /\ \A t \in 1..MaxTimers : WF_vars(TimerTick(t))

----------------------------------------------------------------------------
(* SpecCalc: calculateTotalConnectedNodes applied to the link graphs the    *)
(* host can build.                                                          *)

DepthChoices == {[DefaultSettings EXCEPT !.maxDepth = d] : d \in 0..MaxDepthBound}

\* every note exists and none is excluded, at each depth; or, at depth 2, folder A
\* is excluded or B is missing
CalcChoices ==
    {[files |-> NodeIds, settings |-> n] : n \in DepthChoices}
    \cup {[files |-> NodeIds,
           settings |-> [DefaultSettings EXCEPT !.maxDepth = 2,
                                                !.excludeFolders = << <<"A">> >>]],
          [files |-> NodeIds \ {NodeB},
           settings |-> [DefaultSettings EXCEPT !.maxDepth = 2]]}

InitCalc ==
    /\ links = NoLinks
    /\ \E c \in CalcChoices : files = c.files /\ settings = c.settings
    /\ frontmatter = BareFrontmatter
    /\ weight = [v \in Views |-> [p \in NodeIds |-> 0]]
    /\ pass = NoPass
    /\ calc = NoCalc
    /\ excl = NoExcl
    /\ data = saveData(settings)
    /\ OneViewOpen

NextCalc ==
    \/ \E a \in NodeIds, b \in NodeIds : AddLink(a, b, MaxLinks)
    \/ Calculate

SpecCalc == InitCalc /\ [][NextCalc]_vars

----------------------------------------------------------------------------
(* SpecTimer: the life of the graph views and of their intervals, over a    *)
(* fixed vault.                                                             *)

DiamondLinks ==
    [p \in NodeIds |-> IF p = NodeA THEN <<NodeB, NodeC>>
                       ELSE IF p = NodeB THEN <<NodeC>> ELSE <<>>]

InitTimer ==
    /\ links = DiamondLinks
    /\ files = NodeIds
    /\ frontmatter = RichFrontmatter
    /\ settings = DefaultSettings
    /\ weight = [v \in Views |-> [p \in NodeIds |-> 0]]
    /\ pass = NoPass
    /\ calc = NoCalc
    /\ excl = NoExcl
    /\ data = saveData(settings)
    /\ leaf = [v \in Views |-> "none"]
    /\ renderer = [v \in Views |-> FALSE]
    /\ graphIntervals = EmptyMap
    /\ active = {}
    /\ timerView = EmptyMap
    /\ nextId = 1
    /\ loaded = TRUE
    /\ ticked = {}

NextTimer ==
    \/ \E v \in Views : OpenLeaf(v)
    \/ \E v \in Views : AttachView(v)
    \/ \E v \in Views : RendererReady(v)
    \/ \E v \in Views, keep \in BOOLEAN : CloseLeaf(v, keep)
    \/ LayoutChange
    \/ \E t \in 1..MaxTimers : TimerTick(t)
    \/ Unload

SpecTimer == InitTimer /\ [][NextTimer]_vars

----------------------------------------------------------------------------
(* Graph notions the claims use.                                            *)

targets(n) == {links[n][i] : i \in 1..Len(links[n])}

\* the nodes reachable from the set S by a path of at most d links
RECURSIVE reachWithin(_, _)
reachWithin(S, d) ==
    IF d = 0 THEN S ELSE reachWithin(S \cup UNION {targets(n) : n \in S}, d - 1)

\* the nodes reachable from n by a path of at least one link
reachPlus(n) == reachWithin(targets(n), Cardinality(NodeIds))

Acyclic == \A n \in NodeIds : n \notin reachPlus(n)

effectiveMaxDepth == orDefault(settings.maxDepth, DefaultMaxDepth)

NoExclusions ==
    /\ settings.excludeFolders = <<>>
    /\ settings.excludeTitles = <<>>
    /\ settings.excludeTags = <<>>

\* the orders in which the keys of one link object can be iterated
orderings(s) == {[i \in 1..Len(s) |-> s[f[i]]] : f \in Permutations(1..Len(s))}

\* resolvedLinks with the same keys per node, iterated in the given orders
reordered(oa, ob, oc, od) ==
    [p \in NodeIds |-> IF p = NodeA THEN oa ELSE IF p = NodeB THEN ob
                       ELSE IF p = NodeC THEN oc ELSE od]

----------------------------------------------------------------------------
(* SpecExcl: isExcluded called on one file at a time, over stored           *)
(* exclusion lists and vaults.                                              *)

\* the TFile of a path
fileOf(path) == [path |-> path, basename |-> basenameOf(path)]

ArchiveFolder  == <<"A", "r", "c", "h", "i", "v", "e">>
ArchiveNote    == <<"A", "r", "c", "h", "i", "v", "e", "/", "N", "o", "t", "e", "s", "/", "x">>
ArchiveXNote   == <<"A", "r", "c", "h", "i", "v", "e", "X", "/", "y">>
DraftPattern   == <<"/", "^", "D", "r", "a", "f", "t", ".", "*", "/">>
DraftIdeasNote == <<"D", "r", "a", "f", "t", " ", "I", "d", "e", "a", "s", ".", "m", "d">>
MyDraftNote    == <<"M", "y", " ", "D", "r", "a", "f", "t", ".", "m", "d">>

\* notes outside NodeIds; the model holds no frontmatter for them
OtherNotes == {ArchiveNote, ArchiveXNote, DraftIdeasNote, MyDraftNote}

onlyFolders(f) == [excludeFolders |-> f, excludeTitles |-> <<>>, excludeTags |-> <<>>]
onlyTitles(t)  == [excludeFolders |-> <<>>, excludeTitles |-> t, excludeTags |-> <<>>]
onlyTags(g)    == [excludeFolders |-> <<>>, excludeTitles |-> <<>>, excludeTags |-> g]

\* stored exclusion lists: folders with and without the trailing '/', the empty
\* folder "+ Add Folder" stores, nested folders; titles as exact strings and as
\* /regex/, the one-character title "/"; tags with and without '#'
MoreExclusions ==
    { onlyFolders(<< <<"A", "/">> >>),
      onlyFolders(<< <<>> >>),
      onlyFolders(<< ArchiveFolder >>),
      onlyFolders(<< <<"A", "X">>, <<"A", "r", "c", "h", "i", "v", "e", "/", "N">> >>),
      onlyTitles(<< DraftPattern >>),
      onlyTitles(<< <<"D">> >>),
      onlyTitles(<< <<"/", "D", "$", "/">> >>),
      onlyTitles(<< <<"/">> >>),
      onlyTitles(<< <<"/", "/">> >>),
      onlyTitles(<< <<"D", "r", "a", "f", "t">>, <<"M", "D">> >>),
      onlyTags(<< <<"u">> >>),
      onlyTags(<< <<"v">> >>),
      onlyTags(<< <<"#", "t">> >>),
      onlyTags(<< <<"w">>, <<"t">> >>) }

ExclSettings ==
    {withExclusions(DefaultSettings, e) : e \in ExclusionChoices \cup MoreExclusions}

\* frontmatter whose tags carry '#': A an array with "#t", B a string separated by
\* whitespace only, C an array and a '#' value under another key, D a string
\* with a leading separator
HashFrontmatter ==
    [p \in NodeIds |->
        IF p = NodeA
        THEN [NoFrontmatter EXCEPT !.tags = [kind |-> "array", val |-> << <<"#", "t">> >>]]
        ELSE IF p = NodeB
        THEN [NoFrontmatter EXCEPT !.tags = [kind |-> "string", val |-> <<"v", " ", "#", "t">>]]
        ELSE IF p = NodeC
        THEN [NoFrontmatter EXCEPT !.tags = [kind |-> "array", val |-> << <<"w">> >>],
                                   !.extra = << <<"x">>, <<"#", "u">> >>]
        ELSE [NoFrontmatter EXCEPT !.tags = [kind |-> "string", val |-> <<",", "w">>]]]

ExclVaults ==
    VaultChoices \cup {[files |-> NodeIds, frontmatter |-> HashFrontmatter]}

\* the arguments of the call: the file of an existing note, or no file
ExclFiles == {fileOf(p) : p \in files \cup OtherNotes} \cup {NoFile}

\* isExcluded(f) is called: what it returns, and the cached frontmatter it leaves
Exclude(f) ==
    /\ f = NoFile \/ f.path \in NodeIds \/ settings.excludeTags = <<>>
    /\ excl' = [done |-> TRUE, file |-> f, result |-> isExcluded(f)]
    /\ frontmatter' = IF f # NoFile /\ f.path \in NodeIds
                       THEN [frontmatter EXCEPT ![f.path] = frontmatterAfter(f.path, 1)]
                       ELSE frontmatter
    /\ \A p \in NodeIds : Len(frontmatter'[p].tags.val) <= MaxTagLen
    /\ UNCHANGED <<links, files, settings, weight, pass, calc, data>>
    /\ UNCHANGED timerVars

InitExcl ==
    /\ links = NoLinks
    /\ \E v \in ExclVaults : files = v.files /\ frontmatter = v.frontmatter
    /\ settings \in ExclSettings
    /\ weight = [v \in Views |-> [p \in NodeIds |-> 0]]
    /\ pass = NoPass
    /\ calc = NoCalc
    /\ excl = NoExcl
    /\ data = saveData(settings)
    /\ OneViewOpen

NextExcl == \E f \in ExclFiles : Exclude(f)

SpecExcl == InitExcl /\ [][NextExcl]_vars

----------------------------------------------------------------------------
(* SpecSettings: loadSettings and saveSettings over stored data that holds  *)
(* some of the keys, all of them, a key the defaults do not have, or        *)
(* nothing.                                                                 *)

\* two full data.json contents, with a key ("theme") the defaults do not have;
\* the stored numbers differ from the defaults, one maxDepth is 0
StoredFull ==
    { [sizeMultiplier |-> 3 * Denom, multiplierScale |-> 2 * Denom, maxSize |-> 10 * Denom,
       maxDepth |-> 5,
       excludeFolders |-> << <<"A">> >>, excludeTitles |-> << <<"M">> >>,
       excludeTags |-> << <<"t">> >>, theme |-> <<"d">>],
      [sizeMultiplier |-> 1, multiplierScale |-> 1, maxSize |-> 5 * Denom,
       maxDepth |-> 0,
       excludeFolders |-> <<>>, excludeTitles |-> << DraftRegex >>,
       excludeTags |-> <<>>, theme |-> <<"l">>] }

\* the stored data: any of the keys of a full content, or no file
StoredChoices ==
    UNION {{saveData([k \in S |-> full[k]]) : S \in SUBSET (DOMAIN full)} : full \in StoredFull}
        \cup {NoData}

\* onload line 6 and lines 159-169: loadSettings
LoadSettings ==
    /\ settings' = loadSettings(data)
    /\ UNCHANGED <<links, files, frontmatter, weight, pass, calc, excl, data>>
    /\ UNCHANGED timerVars

\* lines 171-173: saveSettings
SaveSettings ==
    /\ data' = saveData(settings)
    /\ UNCHANGED <<links, files, frontmatter, settings, weight, pass, calc, excl>>
    /\ UNCHANGED timerVars

\* the plugin has loaded its settings from the stored data (onload line 6)
InitSettings ==
    /\ links = NoLinks
    /\ files = NodeIds
    /\ frontmatter = BareFrontmatter
    /\ data \in StoredChoices
    /\ settings = loadSettings(data)
    /\ weight = [v \in Views |-> [p \in NodeIds |-> 0]]
    /\ pass = NoPass
    /\ calc = NoCalc
    /\ excl = NoExcl
    /\ OneViewOpen

NextSettings ==
    \/ LoadSettings
    \/ SaveSettings

SpecSettings == InitSettings /\ [][NextSettings]_vars

----------------------------------------------------------------------------
(* SpecDepth: the Maximum Depth slider moved between traversals, on link    *)
(* graphs over five notes whose links go forward in the order A/D.md,       *)
(* AX/M.md, N.md, A/MD.md, E.md; no graph view is open.                     *)

NodeE == <<"E", ".", "m", "d">>

DepthNodes == NodeIds \cup {NodeE}

nodeRank(n) ==
    IF n = NodeA THEN 1 ELSE IF n = NodeB THEN 2 ELSE IF n = NodeC THEN 3
    ELSE IF n = NodeD THEN 4 ELSE 5

\* lines 229-240: the Maximum Depth slider is set to v (1 to 20 in steps of 1):
\* the setting is stored and saved; refreshAllGraphViews finds no view with a
\* renderer. When the slider moves one step up, calc keeps the totals of the
\* depth before, no longer current (history).
ChangeMaxDepth(v) ==
    /\ \A view \in Views : ~(leaf[view] = "open" /\ renderer[view])
    /\ v # settings.maxDepth
    /\ settings' = [settings EXCEPT !.maxDepth = v]
    /\ data' = saveData(settings')
    /\ calc' = IF calc.done /\ v = settings.maxDepth + 1
               THEN [done |-> FALSE, of |-> calc.of]
               ELSE NoCalc
    /\ UNCHANGED <<links, files, frontmatter, weight, pass, excl>>
    /\ UNCHANGED timerVars

InitDepth ==
    /\ links = [p \in DepthNodes |-> <<>>]
    /\ files = DepthNodes
    /\ frontmatter = [p \in DepthNodes |-> NoFrontmatter]
    /\ \E d \in 1..MaxDepthBound : settings = [DefaultSettings EXCEPT !.maxDepth = d]
    /\ weight = [v \in Views |-> [p \in NodeIds |-> 0]]
    /\ pass = NoPass
    /\ calc = NoCalc
    /\ excl = NoExcl
    /\ data = saveData(settings)
    /\ leaf = [v \in Views |-> "none"]
    /\ renderer = [v \in Views |-> FALSE]
    /\ graphIntervals = EmptyMap
    /\ active = {}
    /\ timerView = EmptyMap
    /\ nextId = 1
    /\ loaded = TRUE
    /\ ticked = {}

NextDepth ==
    \/ \E a \in DepthNodes, b \in DepthNodes :
          nodeRank(a) < nodeRank(b) /\ AddLink(a, b, MaxDepthLinks)
    \/ Calculate
    \/ \E v \in 1..MaxDepthBound : ChangeMaxDepth(v)

SpecDepth == InitDepth /\ [][NextDepth]_vars

----------------------------------------------------------------------------
(* Claims about calculateTotalConnectedNodes (SpecCalc).                    *)

\* C1: on an acyclic link graph in which every node exists and none is excluded,
\* with maxDepth >= 1 and whatever the iteration order of the links,
\* calculateTotalConnectedNodes(root) is the number of distinct nodes within
\* maxDepth links of root, root included.
C1_ExactCountAcyclic ==
    (calc.done /\ Acyclic /\ files = NodeIds /\ NoExclusions /\ effectiveMaxDepth >= 1)
        => \A root \in NodeIds :
               calc.of[root].total
                   = Cardinality(reachWithin({root}, effectiveMaxDepth))

\* C2: on a link graph with a cycle through root (a self-loop included), every
\* node existing and none excluded, calculateTotalConnectedNodes(root) is the
\* number of distinct nodes within maxDepth links of root.
C2_ExactCountCyclic ==
    (calc.done /\ files = NodeIds /\ NoExclusions)
        => \A root \in NodeIds :
               root \in reachPlus(root)
                   => calc.of[root].total
                          = Cardinality(reachWithin({root}, effectiveMaxDepth))

\* C3: for a fixed link graph, exclusion configuration and maxDepth,
\* calculateTotalConnectedNodes(root) is the same under every order in which
\* each node's outgoing links are iterated.
C3_OrderIndependent ==
    calc.done
        => \A oa \in orderings(links[NodeA]), ob \in orderings(links[NodeB]),
              oc \in orderings(links[NodeC]), od \in orderings(links[NodeD]) :
               \A root \in NodeIds :
                   calcVisit(reordered(oa, ob, oc, od), root, {}, 0).total
                       = calc.of[root].total

----------------------------------------------------------------------------
(* Claims about updateNodeSizes (Spec).                                     *)

manualSize(n) == frontmatter[n].node_size

excludedNode(n) == n \in files /\ isExcluded(getFileByPath(n)) = "true"

settingsPositive ==
    settings.sizeMultiplier > 0 /\ settings.multiplierScale > 0 /\ settings.maxSize > 0

\* C4: once updateNodeSizes has run on a view, every node whose frontmatter
\* carries a manual node_size (a truthy value) has exactly that value as its
\* weight, whatever maxSize, sizeMultiplier, multiplierScale and its links are.
C4_ManualSizeVerbatim ==
    pass.view # 0
        => \A n \in files :
               truthy(manualSize(n)) => weight[pass.view][n] = manualSize(n)[1]

\* C5: a node that matches an exclusion rule and carries a manual node_size is
\* still given its manual size by the pass that reached it.
C5_ManualBeatsExclusion ==
    pass.view # 0
        => \A n \in pass.attempted :
               (excludedNode(n) /\ truthy(manualSize(n)))
                   => weight[pass.view][n] = manualSize(n)[1]

\* C6 as stated: with positive sizeMultiplier, multiplierScale and maxSize, every
\* weight the pass assigns to a node without manual size lies between 1 and
\* maxSize.
C6_BetweenOneAndMaxSize ==
    (pass.view # 0 /\ settingsPositive)
        => \A n \in pass.assigned :
               ~truthy(manualSize(n))
                   => /\ One <= weight[pass.view][n]
                      /\ weight[pass.view][n] <= settings.maxSize * Denom

\* C6 amended: with positive sizeMultiplier and multiplierScale and maxSize >= 1,
\* every weight the pass assigns to a node without manual size lies between 1 and
\* maxSize.
C6_BetweenOneAndMaxSizeFromOne ==
    (pass.view # 0 /\ settingsPositive /\ settings.maxSize >= Denom)
        => \A n \in pass.assigned :
               ~truthy(manualSize(n))
                   => /\ One <= weight[pass.view][n]
                      /\ weight[pass.view][n] <= settings.maxSize * Denom

\* a pass has capped a computed size at maxSize, above the floor of 1
C6_Witness ==
    /\ pass.view # 0 /\ settingsPositive /\ settings.maxSize > Denom
    /\ \E n \in pass.assigned :
          /\ ~truthy(manualSize(n))
          /\ weight[pass.view][n] = settings.maxSize * Denom
          /\ calculateTotalConnectedNodes(n).total * settings.sizeMultiplier
                 * settings.multiplierScale > settings.maxSize * Denom

\* C7: a step of the model leaves the weight of every node that isExcluded
\* reports as excluded as it was, in every view.
C7_ExcludedUntouched ==
    [][\A v \in Views : \A n \in NodeIds :
          excludedNode(n) => weight'[v][n] = weight[v][n]]_vars

\* a pass reached an excluded node that has links, and assigned another node
C7_Witness ==
    /\ pass.view # 0
    /\ \E n \in pass.attempted : excludedNode(n) /\ links[n] # <<>>
    /\ pass.assigned # {}

\* C8: when sizing one node raises, every other node of renderer.nodes is still
\* sized in the same pass.
C8_FailureIsolated ==
    (pass.view # 0 /\ pass.threw)
        => \A i \in 1..Len(rendererNodes) : rendererNodes[i] \in pass.attempted

----------------------------------------------------------------------------
(* Claims about the interval timers (SpecTimer).                            *)

timersOf(v) == {t \in active : timerView[t] = v}

\* C9: each graph view has at most one active interval, and it is the one
\* graphIntervals holds for it: a layout-change for a view already in
\* graphIntervals creates no second one.
C9_OneTimerPerView ==
    \A v \in Views :
        /\ Cardinality(timersOf(v)) <= 1
        /\ \A t \in timersOf(v) : v \in DOMAIN graphIntervals /\ graphIntervals[v] = t

\* the handler ran while view 2 was already in graphIntervals, and gave view 1 the
\* next interval
C9_Witness ==
    /\ DOMAIN graphIntervals = {1, 2}
    /\ graphIntervals[2] = 1 /\ graphIntervals[1] = 2
    /\ active = {1, 2}

\* C10: once a view has closed and the layout-change handler has run, its interval
\* is cleared and its entry removed from graphIntervals, and no interval callback
\* runs against it afterwards.
C10_ClosedViewDetached ==
    /\ \A v \in Views :
          leaf[v] = "gone" => (v \notin DOMAIN graphIntervals /\ timersOf(v) = {})
    /\ \A e \in ticked : e[2] # "gone"

\* C10 as stated: the same, and from the moment a view has closed no interval
\* callback runs updateNodeSizes against it.
C10_NoTickAfterClose ==
    C10_ClosedViewDetached /\ \A e \in ticked : ~e[3]

\* a view that had an interval has closed and the handler has run
C10_Witness ==
    \E v \in Views :
        /\ leaf[v] = "gone"
        /\ \E t \in DOMAIN timerView : timerView[t] = v /\ t \notin active

\* C11: after onunload every interval the plugin created has been cleared and
\* graphIntervals is empty, and no interval callback runs after unload, whatever
\* layout-change events came before.
C11_UnloadClearsAll ==
    /\ ~loaded => (active = {} /\ graphIntervals = EmptyMap)
    /\ \A e \in ticked : e[2] # "unloaded"

\* onunload has run after the handler had created intervals for two views, one
\* of them already closed and detached
C11_Witness ==
    /\ ~loaded
    /\ Cardinality(DOMAIN timerView) >= 2
    /\ \E v \in Views : leaf[v] = "gone"
    /\ \E v \in Views : leaf[v] = "open"

----------------------------------------------------------------------------
(* Claims about repeated passes (Spec).                                     *)

\* C12: updateNodeSizes is idempotent: after a pass on a view, a second pass on
\* the same view, with the links, files and settings as they are, assigns the
\* same set of nodes and leaves every node the weight the first pass left.
C12_Idempotent ==
    pass.view # 0 =>
        /\ updateNodeSizes(pass.view).w = weight[pass.view]
        /\ updateNodeSizes(pass.view).assigned = pass.assigned
        /\ updateNodeSizes(pass.view).attempted = pass.attempted

\* a pass has run that pushed onto a cached tag array and gave a node with links
\* a computed size above the floor
C12_Witness ==
    /\ pass.view # 0
    /\ \E p \in files : Len(frontmatter[p].tags.val) > Len(RichFrontmatter[p].tags.val)
    /\ \E n \in pass.assigned :
          /\ ~truthy(manualSize(n))
          /\ links[n] # <<>>
          /\ weight[pass.view][n] = dynamicSize(calculateTotalConnectedNodes(n).total)
          /\ weight[pass.view][n] > One

\* the size one callback resolves for node n from the links, frontmatter and
\* settings as they are
resolvedSize(n) ==
    IF truthy(manualSize(n)) THEN manualSize(n)[1]
    ELSE dynamicSize(calculateTotalConnectedNodes(n).total)

\* every existing node that isExcluded reports as not excluded has its resolved
\* size as weight in view v
settled(v) ==
    \A n \in files :
        isExcluded(getFileByPath(n)) = "false" => weight[v][n] = resolvedSize(n)

\* C13: under fair firing of the intervals, once the links stop changing (files,
\* frontmatter and settings do not change) every open view with a renderer ends
\* up holding, and keeps, for each existing non-excluded node the size resolved
\* from the links and settings as they then are, even when links were added
\* between earlier passes.
C13_EventuallySettled ==
    <>[](\A v \in Views : (leaf[v] = "open" /\ renderer[v]) => settled(v))

\* after the host added a link, a pass has left a node that has links a computed
\* size that an earlier pass, on fewer links, could not have given it
C13_Witness ==
    /\ pass.view # 0 /\ settled(pass.view)
    /\ linkCount = MaxFairLinks
    /\ \E n \in pass.assigned :
          /\ ~truthy(manualSize(n))
          /\ Len(links[n]) = MaxFairLinks
          /\ weight[pass.view][n] = dynamicSize(MaxFairLinks + 1)
          /\ dynamicSize(MaxFairLinks + 1) > dynamicSize(MaxFairLinks)

----------------------------------------------------------------------------
(* Further claims about calculateTotalConnectedNodes (SpecCalc).            *)

\* x links to y and z, y links to z, z links nowhere
diamond(x, y, z) ==
    /\ Cardinality({x, y, z}) = 3
    /\ Len(links[x]) = 2 /\ targets(x) = {y, z}
    /\ links[y] = <<z>>
    /\ links[z] = <<>>

\* C14: a node reachable along several paths is counted at most once: the total
\* of a root never exceeds the number of distinct nodes within maxDepth links of
\* it; and for the diamond x->y->z, x->z with maxDepth 3, no exclusions,
\* sizeMultiplier 2, multiplierScale 1 and maxSize 50 the total of x is 3 and
\* its size is 6.
C14_DiamondCountedOnce ==
    calc.done =>
        /\ \A root \in NodeIds :
              calc.of[root].total <= Cardinality(reachWithin({root}, effectiveMaxDepth))
        /\ \A x \in NodeIds, y \in NodeIds, z \in NodeIds :
              (diamond(x, y, z) /\ files = NodeIds /\ NoExclusions
                    /\ settings.maxDepth = 3)
                  => /\ calc.of[x].total = 3
                     /\ dynamicSize(calc.of[x].total) = 6 * One

\* the totals have been computed on the diamond A->B->C, A->C with maxDepth 3
C14_Witness ==
    /\ calc.done
    /\ links = DiamondLinks
    /\ files = NodeIds /\ NoExclusions
    /\ settings = DefaultSettings

\* C15: a node reached at depth maxDepth (existing, not excluded, not yet
\* visited) contributes exactly 1 and none of its links is followed: the call
\* adds only the node itself to the visited set. So with maxDepth 1 the total of
\* a root is 1 plus the number of its other link targets, and on the diamond
\* x->y->z, x->z the total of x is 3 and the total of y is 2.
C15_DepthCapBoundary ==
    calc.done =>
        /\ \A n \in files : \A V \in SUBSET (NodeIds \ {n}) :
              isExcluded(getFileByPath(n)) = "false"
                  => calcVisit(links, n, V, effectiveMaxDepth)
                         = [total |-> 1, visited |-> V \cup {n}, threw |-> FALSE]
        /\ (effectiveMaxDepth = 1 /\ files = NodeIds /\ NoExclusions)
              => /\ \A root \in NodeIds :
                       calc.of[root].total = 1 + Cardinality(targets(root) \ {root})
                 /\ \A x \in NodeIds, y \in NodeIds, z \in NodeIds :
                       diamond(x, y, z) => calc.of[x].total = 3 /\ calc.of[y].total = 2

\* the totals have been computed on the diamond A->B->C, A->C with maxDepth 1
C15_Witness ==
    /\ calc.done
    /\ links = DiamondLinks
    /\ files = NodeIds /\ NoExclusions
    /\ settings.maxDepth = 1
    /\ calc.of[NodeA].total = 3 /\ calc.of[NodeB].total = 2

----------------------------------------------------------------------------
(* Claims about isExcluded (SpecExcl).                                      *)

\* the folder, without one trailing '/', ends exactly at a '/' of the path
onBoundary(path, folder) ==
    LET bare == IF endsWith(folder, <<"/">>) THEN SubSeq(folder, 1, Len(folder) - 1)
                ELSE folder
    IN  \E k \in 1..Len(path) : path[k] = "/" /\ SubSeq(path, 1, k - 1) = bare

underSomeFolder(path) ==
    \E i \in 1..Len(settings.excludeFolders) : onBoundary(path, settings.excludeFolders[i])

\* C16: the folder rule applies on a path boundary: a file under a configured
\* folder is excluded, and with no title and tag rules configured a file is
\* excluded exactly when its path starts with a configured folder followed by
\* '/'; excludeFolders ["Archive"] excludes "Archive/Notes/x" and does not
\* exclude "ArchiveX/y".
C16_FolderOnBoundary ==
    (excl.done /\ excl.file # NoFile) =>
        /\ underSomeFolder(excl.file.path) => excl.result = "true"
        /\ (settings.excludeTitles = <<>> /\ settings.excludeTags = <<>>)
              => (excl.result = "true" <=> underSomeFolder(excl.file.path))
        /\ settings.excludeFolders = << ArchiveFolder >>
              => /\ excl.file.path = ArchiveNote => excl.result = "true"
                 /\ excl.file.path = ArchiveXNote => excl.result = "false"

\* isExcluded has been called on "ArchiveX/y" with excludeFolders ["Archive"]
C16_Witness ==
    /\ excl.done
    /\ settings.excludeFolders = << ArchiveFolder >>
    /\ excl.file.path = ArchiveXNote
    /\ excl.result = "false"

\* a pattern with '/' before and after an interior
wrapped(pattern) ==
    Len(pattern) >= 2 /\ pattern[1] = "/" /\ pattern[Len(pattern)] = "/"

interior(pattern) == SubSeq(pattern, 2, Len(pattern) - 1)

titleRule(title, pattern) ==
    IF wrapped(pattern) THEN regexTest(interior(pattern), title)
    ELSE title = pattern

\* C17: the title rule: a pattern wrapped in /.../ is tested as a regular
\* expression against the bare title, every other pattern excludes only a bare
\* title equal to it; with no folder and tag rules and patterns that compile, a
\* file is excluded exactly when some pattern does so, and "/^Draft.*/"
\* excludes "Draft Ideas" and not "My Draft".
C17_TitleRule ==
    ( /\ excl.done /\ excl.file # NoFile
      /\ settings.excludeFolders = <<>> /\ settings.excludeTags = <<>>
      /\ \A i \in 1..Len(settings.excludeTitles) :
            wrapped(settings.excludeTitles[i])
                => regexCompiles(interior(settings.excludeTitles[i])) )
    => /\ excl.result = "true"
            <=> \E i \in 1..Len(settings.excludeTitles) :
                    titleRule(excl.file.basename, settings.excludeTitles[i])
       /\ settings.excludeTitles = << DraftPattern >>
            => /\ excl.file.path = DraftIdeasNote => excl.result = "true"
               /\ excl.file.path = MyDraftNote => excl.result = "false"

\* the declared tags of a frontmatter, array entries or pieces of the string,
\* each without its leading '#'
declaredTagSet(fm) ==
    IF fm.tags.kind = "array"
    THEN {stripHash(fm.tags.val[i]) : i \in 1..Len(fm.tags.val)}
    ELSE IF fm.tags.kind = "string"
         THEN {stripHash(split(fm.tags.val)[i]) : i \in 1..Len(split(fm.tags.val))} \ {<<>>}
         ELSE {}

\* the values under other keys that start with '#', without the '#'
hashValueSet(fm) ==
    {stripHash(fm.extra[i]) : i \in {k \in 1..Len(fm.extra) : startsWith(fm.extra[k], <<"#">>)}}

effectiveTagSet(fm) == declaredTagSet(fm) \cup hashValueSet(fm)

excludeTagSet == {settings.excludeTags[i] : i \in 1..Len(settings.excludeTags)}

\* C18: the tag rule: a file whose effective tag set (declared tags, array or
\* separated string, each without its leading '#', plus the other frontmatter
\* values that start with '#', without it) shares an element with excludeTags
\* is excluded. The entries a call appends to a cached array are already in
\* the effective tag set, so it is the same set before and after the call.
C18_TagRule ==
    ( /\ excl.done /\ excl.file # NoFile /\ excl.file.path \in NodeIds
      /\ excl.result # "throws"
      /\ effectiveTagSet(frontmatter[excl.file.path]) \cap excludeTagSet # {} )
    => excl.result = "true"

\* C19: isExcluded is a pure predicate: a call changes neither the settings
\* nor the cached frontmatter of any file, the tag list included.
C19_ExcludePure ==
    [][(\E f \in ExclFiles : Exclude(f))
          => (settings' = settings /\ frontmatter' = frontmatter)]_vars

\* C20: isExcluded returns true when the file passed to it is missing.
C20_MissingFileExcluded ==
    (excl.done /\ excl.file = NoFile) => excl.result = "true"

----------------------------------------------------------------------------
(* Claims about loadSettings and saveSettings (SpecSettings).               *)

DefaultKeys == DOMAIN DefaultSettings

StoredKeys == DOMAIN loadData(data)

\* C21: loadSettings gives the stored record merged over the defaults: the
\* settings have the default keys and the stored keys, a default key absent
\* from the stored data has its default value, a stored key has its stored
\* value, and a stored key the defaults do not have is in the data a
\* saveSettings after the loadSettings writes, with the same value.
C21_MergedOverDefaults ==
    /\ DOMAIN loadSettings(data) = DefaultKeys \cup StoredKeys
    /\ \A k \in DefaultKeys \ StoredKeys : loadSettings(data)[k] = DefaultSettings[k]
    /\ \A k \in StoredKeys : loadSettings(data)[k] = loadData(data)[k]
    /\ \A k \in StoredKeys \ DefaultKeys :
          /\ saveData(loadSettings(data)).exists
          /\ k \in DOMAIN saveData(loadSettings(data)).json
          /\ saveData(loadSettings(data)).json[k] = loadData(data)[k]
    /\ settings = loadSettings(data)

\* settings loaded from data that lacked maxDepth and held a changed
\* sizeMultiplier and the key "theme" have been saved
C21_Witness ==
    /\ data = saveData(settings)
    /\ "theme" \in DOMAIN settings
    /\ settings.maxDepth = DefaultMaxDepth
    /\ settings.sizeMultiplier # DefaultSettings.sizeMultiplier
    /\ settings.excludeTags = <<>>

----------------------------------------------------------------------------
(* Further claims about calculateTotalConnectedNodes (SpecCalc).            *)

\* C22: calculateTotalConnectedNodes terminates on every link graph, cycles and
\* self-loops included, whatever maxDepth is: a key already in the visited set
\* returns 0 and leaves the set as it is, at any depth; the call on a root
\* returns with the root in the visited set and a total no larger than the
\* number of keys visited, and where every node exists and none is excluded the
\* total is the number of keys visited, each key having been added once.
C22_VisitedAtMostOnce ==
    calc.done =>
        /\ \A n \in NodeIds : \A V \in SUBSET NodeIds : \A d \in 0..effectiveMaxDepth :
              n \in V => calcVisit(links, n, V, d) = [total |-> 0, visited |-> V, threw |-> FALSE]
        /\ \A root \in NodeIds :
              /\ root \in calc.of[root].visited
              /\ calc.of[root].visited \subseteq NodeIds
              /\ calc.of[root].total <= Cardinality(calc.of[root].visited)
              /\ (files = NodeIds /\ NoExclusions)
                    => calc.of[root].total = Cardinality(calc.of[root].visited)

\* the traversal has run on a graph with a self-loop and a cycle of two nodes
C22_Witness ==
    /\ calc.done
    /\ files = NodeIds /\ NoExclusions
    /\ \E a \in NodeIds, b \in NodeIds :
          /\ a # b
          /\ links[a] = <<a, b>>
          /\ links[b] = <<a, b>>
          /\ calc.of[a].total = 2
          /\ calc.of[a].visited = {a, b}

\* the nodes that exist and are not excluded
includedNodes == {n \in files : isExcluded(getFileByPath(n)) = "false"}

\* the nodes that exist and are excluded
excludedNodes == {n \in files : isExcluded(getFileByPath(n)) = "true"}

\* the nodes reached from S by at most d links, leaving only nodes of inc
RECURSIVE reachThrough(_, _, _)
reachThrough(inc, S, d) ==
    IF d = 0 THEN S
    ELSE reachThrough(inc, S \cup UNION {targets(n) : n \in S \cap inc}, d - 1)

\* C23: during traversal an excluded node contributes 0 and its links are not
\* followed: a call on an excluded node returns 0 having visited only that
\* node, the traversal from a root visits no node that is reachable only
\* through excluded nodes, and the total counts at most the visited nodes that
\* exist and are not excluded.
C23_ExcludedNotFollowed ==
    calc.done =>
        /\ \A n \in excludedNodes : \A V \in SUBSET (NodeIds \ {n}) :
              \A d \in 0..effectiveMaxDepth :
                  calcVisit(links, n, V, d)
                      = [total |-> 0, visited |-> V \cup {n}, threw |-> FALSE]
        /\ \A inc \in {includedNodes} : \A root \in NodeIds :
              /\ calc.of[root].visited \subseteq reachThrough(inc, {root}, Cardinality(NodeIds))
              /\ calc.of[root].total <= Cardinality(calc.of[root].visited \cap inc)

\* B links to the excluded A/D.md, which links to N.md: N.md is reachable from B
\* only through the excluded node and B's total is 1
C23_Witness ==
    /\ calc.done
    /\ settings.excludeFolders = << <<"A">> >>
    /\ links[NodeB] = <<NodeA>>
    /\ links[NodeA] = <<NodeC>>
    /\ calc.of[NodeB].total = 1
    /\ calc.of[NodeB].visited = {NodeB, NodeA}

----------------------------------------------------------------------------
(* Further claims about updateNodeSizes (Spec).                             *)

\* the link graph without the links to n
withoutTarget(lk, n) == [p \in DOMAIN lk |-> SelectSeq(lk[p], LAMBDA x : x # n)]

\* C24: a link target that does not resolve to a file contributes 0 and raises
\* nothing: a call on it returns 0 having visited only that key, and every total
\* is what it is on the graph without the links to it; a node of the view whose
\* key does not resolve is not assigned by a pass of updateNodeSizes, and no
\* step changes its weight.
C24_UnresolvedContributesNothing ==
    /\ [](\A n \in NodeIds \ files :
            /\ \A V \in SUBSET (NodeIds \ {n}) : \A d \in 0..effectiveMaxDepth :
                  calcVisit(links, n, V, d)
                      = [total |-> 0, visited |-> V \cup {n}, threw |-> FALSE]
            /\ \A root \in NodeIds :
                  /\ calcVisit(links, root, {}, 0).total
                        = calcVisit(withoutTarget(links, n), root, {}, 0).total
                  /\ calcVisit(links, root, {}, 0).threw
                        = calcVisit(withoutTarget(links, n), root, {}, 0).threw
            /\ n \notin pass.assigned)
    /\ [][\A v \in Views : \A n \in NodeIds \ files : weight'[v][n] = weight[v][n]]_vars

\* a pass has sized a node whose only link goes to a key that does not resolve,
\* and has come to that key too
C24_Witness ==
    /\ pass.view # 0
    /\ ~pass.threw
    /\ \E n \in NodeIds \ files :
          /\ n \in pass.attempted
          /\ weight[pass.view][n] = 0
          /\ \E root \in pass.assigned :
                /\ links[root] = <<n>>
                /\ ~truthy(manualSize(root))
                /\ weight[pass.view][root] = dynamicSize(1)

\* the nodes with node_size 0 that the last pass came to and that are not excluded
zeroSized ==
    {n \in pass.attempted \cap includedNodes : manualSize(n) = <<0>>}

\* C25: a manual node_size of 0 is treated as absent: a non-excluded node with
\* node_size 0 is assigned the computed size, which lies between 1 and maxSize
\* and is not 0 (for positive sizeMultiplier, multiplierScale and maxSize).
C25_ZeroManualIsAbsent ==
    (pass.view # 0 /\ ~pass.threw /\ settingsPositive)
        => \A n \in zeroSized :
              /\ n \in pass.assigned
              /\ weight[pass.view][n] = dynamicSize(calculateTotalConnectedNodes(n).total)
              /\ weight[pass.view][n] # 0
              /\ One <= weight[pass.view][n]
              /\ weight[pass.view][n] <= settings.maxSize * Denom

\* C25 amended: a manual node_size of 0 is treated as absent: a non-excluded
\* node with node_size 0 is assigned the computed size, which is at least 1, not
\* 0, and at most maxSize when maxSize is 1 or more.
C25_ZeroManualIsAbsentFromOne ==
    (pass.view # 0 /\ ~pass.threw /\ settingsPositive)
        => \A n \in zeroSized :
              /\ n \in pass.assigned
              /\ weight[pass.view][n] = dynamicSize(calculateTotalConnectedNodes(n).total)
              /\ weight[pass.view][n] # 0
              /\ One <= weight[pass.view][n]
              /\ settings.maxSize >= Denom
                    => weight[pass.view][n] <= settings.maxSize * Denom

\* a pass has given AX/M.md, which carries node_size 0 and has a link, a
\* computed size above 1
C25_Witness ==
    /\ pass.view # 0 /\ ~pass.threw /\ settingsPositive
    /\ NodeB \in zeroSized
    /\ links[NodeB] # <<>>
    /\ weight[pass.view][NodeB] > One
    /\ weight[pass.view][NodeB] = dynamicSize(calculateTotalConnectedNodes(NodeB).total)

----------------------------------------------------------------------------
(* Claims about maxDepth (SpecDepth).                                       *)

\* calc holds the totals of the depth before the slider moved one step up
raisedByOne == ~calc.done /\ calc.of # <<>>

\* C26: on a fixed link graph, with the same order of the links and the same
\* exclusions, raising maxDepth from d >= 1 to d + 1 lowers the total of no
\* root.
C26_DepthMonotone ==
    raisedByOne
        => \A root \in NodeIds :
              calculateTotalConnectedNodes(root).total >= calc.of[root].total

----------------------------------------------------------------------------
(* Further claims about the interval timers (SpecTimer).                    *)

\* C27: immediately after every run of the layout-change handler the keys of
\* graphIntervals are the views of the graph leaves whose view is not null:
\* every open graph view has an entry with a live interval of its own, and
\* no other view has an entry or a live interval.
C27_MapMatchesOpenViews ==
    [][LayoutChange
          => /\ DOMAIN graphIntervals' = {v \in Views : leaf'[v] = "open"}
             /\ \A v \in DOMAIN graphIntervals' :
                   /\ graphIntervals'[v] \in active'
                   /\ timerView'[graphIntervals'[v]] = v
             /\ \A t \in active' : timerView'[t] \in DOMAIN graphIntervals']_vars

\* layout-change has run with one view open and another closed since it got
\* its interval: the map holds the open view only
C27_Witness ==
    /\ loaded
    /\ \E v \in Views, w \in Views :
          /\ leaf[v] = "gone"
          /\ leaf[w] = "open"
          /\ v \in {timerView[t] : t \in DOMAIN timerView}
          /\ DOMAIN graphIntervals = {w}
          /\ active = {graphIntervals[w]}

====
